---- MODULE Spec2Model ----
(***************************************************************************)
(* A model of the w4h ETL job (src/main.py, src/utils.py): the update gate *)
(* on the status document, the stages of one run of main(), the chunked    *)
(* upload loop, the retention cutoff, the merge with the prior grid and    *)
(* the integer encoding of a cell.                                         *)
(*                                                                         *)
(* Time is counted in whole hours since an epoch midnight.  Temperatures   *)
(* are counted in hundredths of a degree.  Data sources, chart dates and   *)
(* grid values are small tokens.                                           *)
(***************************************************************************)
EXTENDS Integers, Sequences, FiniteSets, TLC

VARIABLES
    status,     \* the StatusStore document {_id: "status"}
    forecasts,  \* the forecast collection: _id -> the data of its document, or Absent
    blob,       \* the blob object w4h_data.nc: the source whose merged grid it holds
    media,      \* the chart images put to the media endpoint
    faults,     \* how many more store faults the environment may inject (-1: any number)
    run,        \* run[r]: the locals of pipeline run r (one process running main())
    inp,        \* the inputs of the pure function under study
    out         \* its result

vars == <<status, forecasts, blob, media, faults, run, inp, out>>
pipeVars == <<status, forecasts, blob, media, faults, run>>
pureVars == <<inp, out>>

(***************************************************************************)
(* Bounds of the model.                                                    *)
(***************************************************************************)
NumRuns == 2        \* pipeline runs that may be started concurrently
NumCells == 13      \* (lat, lon) cells of the grid, in lat-major order
MaxDate == 2        \* chart dates are 1..MaxDate
GateFaults == 1     \* store faults injected while several runs interleave
GridWidth == 4      \* longitudes per latitude row of the grid
MaxRounds == 2      \* times the upload loop is run on one batch
EncSpan == 2        \* tenths of a degree tried next to each end of the domain and to zero
MaxHour == 96       \* wall-clock times and first timestamps tried: hours 0..MaxHour
NewLen == 2         \* hourly timestamps of the new grid in the merge
MaxLag == 16        \* six-hour cycles between the start of the new grid and now
MaxBehind == 4      \* six-hour cycles the source of the prior grid is behind the new one
MaxAhead == 16      \* six-hour cycles the source of the prior grid is ahead of the new one
SeriesLen == 26     \* timestamps of the grid that is shifted by hour angle
MaxLons == 3        \* longitudes of the grid that is shifted by hour angle

(***************************************************************************)
(* Program constants.                                                      *)
(***************************************************************************)
\* main.py:312  for i in [12, 13, 15, 20, 30, 50, 100]
ChunkCounts == <<12, 13, 15, 20, 30, 50, 100>>
\* utils.py:76,80,84,89  @retry(AutoReconnect, tries=2, delay=0)
StoreTries == 2
\* main.py:83-92  the eight variables materialized by load()
NumDataVars == 8
\* main.py:97  isel(time=slice(1, 121)): the hourly steps of a source
NumSteps == 120

Runs == 1..NumRuns
Cells == 1..NumCells
Dates == 1..MaxDate
Sources == {"gfsA", "gfsB"}
Vertices == <<"highs", "lows">>
Absent == "absent"
NoChart == "none"
NoSource == "none"
Unused == "unused"

(***************************************************************************)
(* utils.py Database: the status document and the retry decorator.         *)
(***************************************************************************)
\* The status documents the store may hold.
StatusDocs ==
    [isUpdating : BOOLEAN,
     latestSuccessfulUpdateSource : Sources,
     globalCharts : [Dates -> Sources \cup {NoChart}]]

\* The outcome of one attempt of a store call: it returns, it raises the
\* transient AutoReconnect, or it raises another error.
StoreOutcomes == {"ok", "reconnect", "error"}

\* A decorator that repeats the call on every error while tries are left.
RetriedOnEveryError(o, tries) == o # "ok" /\ tries > 1

\* @retry(AutoReconnect, tries=2, delay=0): a call is repeated when it raises
\* AutoReconnect and tries are left; any other error, or AutoReconnect on the
\* last try, propagates.
Retried(o, tries) == o = "reconnect" /\ tries > 1

(***************************************************************************)
(* main.py:286-304: the batch of upsert operations.                        *)
(***************************************************************************)
\* The cells of the grid are numbered in lat-major order; latitude and
\* longitude are multiples of 0.25 degree, counted here in hundredths.
LatOf(c) == 25 * ((c - 1) \div GridWidth)
LonOf(c) == 25 * ((c - 1) % GridWidth)

\* f"{lat:.2f},{lon:.2f}": the coordinates printed with two decimals.
MongoId(c) == <<LatOf(c), LonOf(c)>>

Keys == {MongoId(c) : c \in Cells}

\* The documents of the forecast collection.  forecastStart and
\* tempTimesEncoded are determined by the grid of the source, so a document
\* is named by its key and that source.
Docs == [id : Keys, data : Sources]

\* ReplaceOne({"_id": mongo_id}, dict(_id=..., ...), upsert=True) for every
\* near-land cell, in the order of the nested loops over lat and lon.
Uploads(near_land, source) ==
    LET F[c \in 0..NumCells] ==
            IF c = 0 THEN <<>>
            ELSE IF c \in near_land
                 THEN Append(F[c - 1], [id |-> MongoId(c), data |-> source])
                 ELSE F[c - 1]
    IN  F[NumCells]

Min(a, b) == IF a <= b THEN a ELSE b

\* A split into n parts of Len \div n operations each, the remainder left
\* out.
ArraySplitEven(uploads, n, k) ==
    LET each == Len(uploads) \div n
    IN  SubSeq(uploads, (k - 1) * each + 1, k * each)

\* np.array_split(uploads, n)[k - 1]: n parts, the first Len % n of them one
\* longer than the others (parts may be empty).
ArraySplit(uploads, n, k) ==
    LET each == Len(uploads) \div n
        extras == Len(uploads) % n
        start == (k - 1) * each + Min(k - 1, extras)
        size == each + (IF k <= extras THEN 1 ELSE 0)
    IN  SubSeq(uploads, start + 1, start + size)

\* bulk_write of a set of upserts: each replaces, or inserts, the document of
\* its key.
BulkWrite(coll, ops) ==
    [k \in Keys |->
        IF \E op \in ops : op.id = k
        THEN (CHOOSE op \in ops : op.id = k).data
        ELSE coll[k]]

Range(seq) == {seq[i] : i \in 1..Len(seq)}

\* The chart iterations of a run: for date in np.unique(...), for vertex in
\* (highs, lows).
ChartJobs(dates) ==
    LET F[d \in 0..MaxDate] ==
            IF d = 0 THEN <<>>
            ELSE IF d \in dates
                 THEN F[d - 1] \o <<<<d, Vertices[1]>>, <<d, Vertices[2]>>>>
                 ELSE F[d - 1]
    IN  F[MaxDate]

(***************************************************************************)
(* The state of a run before main() starts.                                *)
(***************************************************************************)
NewRun(override, env_source, near_land, chartDates, earliest) ==
    [pc |-> "init",
     override |-> override,          \* DATA_SOURCE_URL is set
     env_source |-> env_source,      \* DATA_SOURCE_URL
     near_land |-> near_land,        \* near_land_complete_globe.nc
     chartDates |-> chartDates,      \* dates of the shifted grid with 24 samples
     earliest |-> earliest,          \* earliest_global_chart_date
     cache |-> Unused,               \* db.status
     data_source |-> NoSource,
     tries |-> StoreTries,           \* tries left of the store call in progress
     var |-> 0,                      \* the data variable being loaded
     uploads |-> <<>>,
     att |-> 0,                      \* index into ChunkCounts
     part |-> 0,                     \* part of the attempt being committed
     pruneLeft |-> {},
     chartLeft |-> <<>>,
     \* history of the run, for the properties
     entered |-> FALSE,              \* wrote isUpdating = true
     stale |-> FALSE,                \* wrote it over a flag that was already true
     clearedForeign |-> FALSE,       \* cleared a flag it had failed to set itself
     freshReads |-> 0,               \* gate reads that showed isUpdating = false
     rejected |-> FALSE,             \* a gate read showed isUpdating = true
     wrote |-> FALSE,                \* wrote to a store
     log |-> <<>>,                   \* the upload attempts: chunk count, outcome
     committed |-> 0,                \* parts committed in the attempt in progress
     wroteLatest |-> FALSE,
     persisted |-> FALSE,
     charted |-> 0,                  \* PUTs of charts made
     put |-> "none",                 \* the answer to the last PUT of a chart
     cleanup |-> "none",             \* the write of the finally block
     raised |-> "none"]              \* the stage whose error ended the run

IdleRun == [NewRun(FALSE, NoSource, {}, {}, 1) EXCEPT !.pc = "idle"]

\* One more injected fault is allowed for an outcome that is an error.
Inject(o) ==
    /\ o # "ok" => faults # 0
    /\ faults' = IF o = "ok" \/ faults < 0 THEN faults ELSE faults - 1

\* An error raised inside the try block of main: control passes to finally.
Raise(r, stage) ==
    [run[r] EXCEPT !.pc = "finally", !.tries = StoreTries, !.raised = stage]

(***************************************************************************)
(* main.py:30-75: the update gate and the choice of the data source.       *)
(***************************************************************************)
\* The gate tested inside the try block: the return passes through finally.
RejectedInsideTry(r) ==
    [run[r] EXCEPT !.pc = "finally", !.tries = StoreTries, !.rejected = TRUE,
                   !.cache = status]

\* main.py:34-35 and 68-69: "Update already in progress. Exiting"; return.
Rejected(r) ==
    [run[r] EXCEPT !.pc = "done", !.tries = StoreTries, !.rejected = TRUE,
                   !.cache = status]

\* main.py:36, 73-75: after the first gate read showed isUpdating = false.
AfterFirstRead(r) ==
    IF run[r].override
    THEN [run[r] EXCEPT !.pc = "set_updating", !.tries = StoreTries,
                        !.cache = status, !.freshReads = @ + 1,
                        !.data_source = run[r].env_source]
    ELSE [run[r] EXCEPT !.pc = "scrape", !.tries = StoreTries,
                        !.cache = status, !.freshReads = @ + 1]

\* main.py:31-35: Database(...) fetches the status (utils.py:65-68, 84-87),
\* then main tests db.status["isUpdating"].
GateInit(r) ==
    /\ run[r].pc = "init"
    /\ \E o \in StoreOutcomes :
        /\ Inject(o)
        /\ run' = [run EXCEPT ![r] =
                    IF o = "ok"
                    THEN IF status.isUpdating THEN Rejected(r) ELSE AfterFirstRead(r)
                    ELSE IF Retried(o, run[r].tries)
                    THEN [run[r] EXCEPT !.tries = @ - 1]
                    ELSE [run[r] EXCEPT !.pc = "done", !.tries = StoreTries,
                                        !.raised = "init"]]
    /\ UNCHANGED <<status, forecasts, blob, media, pureVars>>

\* The scraped source taken without the fresh read of the status.
AfterScrapeNoRecheck(r, found) ==
    IF found = run[r].cache.latestSuccessfulUpdateSource
    THEN [run[r] EXCEPT !.pc = "done", !.data_source = found]
    ELSE [run[r] EXCEPT !.pc = "set_updating", !.data_source = found]

\* main.py:64-69: the scraped source against the one read at start-up.
AfterScrape(r, found) ==
    IF found = run[r].cache.latestSuccessfulUpdateSource
    THEN [run[r] EXCEPT !.pc = "done", !.data_source = found]
    ELSE [run[r] EXCEPT !.pc = "recheck", !.data_source = found]

\* main.py:37-66: scrape the directory listings for the newest source; no
\* date or no time found raises through text_alert (utils.py:15-30), outside
\* the try block.
Scrape(r) ==
    /\ run[r].pc = "scrape"
    /\ \/ \E found \in Sources : run' = [run EXCEPT ![r] = AfterScrape(r, found)]
       \/ run' = [run EXCEPT ![r] = [run[r] EXCEPT !.pc = "done", !.raised = "scrape"]]
    /\ UNCHANGED <<status, forecasts, blob, media, faults, pureVars>>

\* main.py:67-72: the fresh read before committing to the source.
GateRecheck(r) ==
    /\ run[r].pc = "recheck"
    /\ \E o \in StoreOutcomes :
        /\ Inject(o)
        /\ run' = [run EXCEPT ![r] =
                    IF o = "ok"
                    THEN IF status.isUpdating
                         THEN Rejected(r)
                         ELSE [run[r] EXCEPT !.pc = "set_updating",
                                             !.tries = StoreTries,
                                             !.cache = status,
                                             !.freshReads = @ + 1]
                    ELSE IF Retried(o, run[r].tries)
                    THEN [run[r] EXCEPT !.tries = @ - 1]
                    ELSE [run[r] EXCEPT !.pc = "done", !.tries = StoreTries,
                                        !.raised = "recheck"]]
    /\ UNCHANGED <<status, forecasts, blob, media, pureVars>>

(***************************************************************************)
(* main.py:78-253: the try block up to the merged grid.                    *)
(***************************************************************************)
\* A slip in the field name: the status is written, the flag is not set.
UpdatingOtherField(doc) == doc

\* utils.py:80-82 called at main.py:79: {"$set": {"isUpdating": True}}.
Updating(doc) == [doc EXCEPT !.isUpdating = TRUE]

\* main.py:79: db.set_status("isUpdating", True).
SetUpdating(r) ==
    /\ run[r].pc = "set_updating"
    /\ \E o \in StoreOutcomes :
        /\ Inject(o)
        /\ IF o = "ok"
           THEN /\ status' = Updating(status)
                /\ run' = [run EXCEPT ![r] =
                            [run[r] EXCEPT !.pc = "open", !.tries = StoreTries,
                                           !.entered = TRUE, !.wrote = TRUE,
                                           !.stale = status.isUpdating]]
           ELSE /\ status' = status
                /\ run' = [run EXCEPT ![r] =
                            IF Retried(o, run[r].tries)
                            THEN [run[r] EXCEPT !.tries = @ - 1]
                            ELSE Raise(r, "set_updating")]
    /\ UNCHANGED <<forecasts, blob, media, pureVars>>

\* utils.py:45-47: @retry(Exception) with the default tries=-1: every
\* Exception of xr.open_dataset is caught and the call repeated.
RetryOpenDataset(r, ok) ==
    IF ok
    THEN [run[r] EXCEPT !.pc = "load", !.var = 1]
    ELSE [run[r] EXCEPT !.pc = "open_retry"]

\* main.py:81, utils.py:50-54: source = open_dataset(data_source).
OpenDataset(r) ==
    /\ run[r].pc = "open"
    /\ \E ok \in BOOLEAN : run' = [run EXCEPT ![r] = RetryOpenDataset(r, ok)]
    /\ UNCHANGED <<status, forecasts, blob, media, faults, pureVars>>

\* The retry decorator caught the error and calls xr.open_dataset again.
OpenDatasetAgain(r) ==
    /\ run[r].pc = "open_retry"
    /\ run' = [run EXCEPT ![r] = [run[r] EXCEPT !.pc = "open"]]
    /\ UNCHANGED <<status, forecasts, blob, media, faults, pureVars>>

\* The outcome of dataArray.load(): done, a RuntimeError, another error.
LoadOutcomes == {"ok", "runtime", "error"}

\* utils.py:33-42: @retry(RuntimeError) with the default tries=-1 repeats the
\* load on RuntimeError; load() wraps any other error in "Unable to load".
RetryLoad(r, o) ==
    IF o = "ok"
    THEN IF run[r].var = NumDataVars
         THEN [run[r] EXCEPT !.pc = "download"]
         ELSE [run[r] EXCEPT !.var = @ + 1]
    ELSE IF o = "runtime"
    THEN [run[r] EXCEPT !.pc = "load_retry"]
    ELSE Raise(r, "load")

\* main.py:110-111, 176-177, 185-186: load(ds[var]) for the eight variables,
\* with the derived fields computed in between.
Load(r) ==
    /\ run[r].pc = "load"
    /\ \E o \in LoadOutcomes : run' = [run EXCEPT ![r] = RetryLoad(r, o)]
    /\ UNCHANGED <<status, forecasts, blob, media, faults, pureVars>>

\* The retry decorator caught the RuntimeError and calls load again.
LoadAgain(r) ==
    /\ run[r].pc = "load_retry"
    /\ run' = [run EXCEPT ![r] = [run[r] EXCEPT !.pc = "load"]]
    /\ UNCHANGED <<status, forecasts, blob, media, faults, pureVars>>

\* main.py:211-217: download the previously persisted grid.
Download(r) ==
    /\ run[r].pc = "download"
    /\ \E ok \in BOOLEAN :
        run' = [run EXCEPT ![r] =
                 IF ok THEN [run[r] EXCEPT !.pc = "merge"] ELSE Raise(r, "download")]
    /\ UNCHANGED <<status, forecasts, blob, media, faults, pureVars>>

\* The record of an upload attempt: its chunk count and how it ended.
Attempt(a) == [count |-> ChunkCounts[a], outcome |-> "running"]

\* main.py:312-315: the upload loop starts with the first chunk count.
StartUpload(rec, uploads) ==
    [rec EXCEPT !.pc = "upload", !.att = 1, !.part = 1, !.committed = 0,
                !.tries = StoreTries, !.uploads = uploads,
                !.log = <<Attempt(1)>>, !.raised = "none"]

\* main.py:219-305: the retention times, the merge with the prior grid, the
\* encoding and the list of uploads.
Merge(r) ==
    /\ run[r].pc = "merge"
    /\ \E ok \in BOOLEAN :
        run' = [run EXCEPT ![r] =
                 IF ok
                 THEN StartUpload(run[r], Uploads(run[r].near_land,
                                                  run[r].data_source))
                 ELSE Raise(r, "merge")]
    /\ UNCHANGED <<status, forecasts, blob, media, faults, pureVars>>

(***************************************************************************)
(* main.py:312-324: the upload loop.                                       *)
(***************************************************************************)
\* The log with the outcome of its last entry.
Ended(log, outcome) == [log EXCEPT ![Len(log)] = [@ EXCEPT !.outcome = outcome]]

\* main.py:316-319: a part is committed; after the last part "SUCCESS" and
\* break, else the next part.
PartCommitted(r) ==
    IF run[r].part = ChunkCounts[run[r].att]
    THEN [run[r] EXCEPT !.pc = "set_latest", !.tries = StoreTries,
                        !.committed = @ + 1, !.log = Ended(@, "ok")]
    ELSE [run[r] EXCEPT !.part = @ + 1, !.tries = StoreTries,
                        !.committed = @ + 1]

\* The failed part skipped (the try inside the loop over the parts): the
\* attempt goes on with its next part.
PartFailedSkipsPart(r) ==
    IF run[r].part = ChunkCounts[run[r].att]
    THEN [run[r] EXCEPT !.pc = "set_latest", !.tries = StoreTries,
                        !.log = Ended(@, "ok")]
    ELSE [run[r] EXCEPT !.part = @ + 1, !.tries = StoreTries]

\* The error of the last chunk count printed like the others, not raised:
\* the loop ends and main goes on.
PartFailedNeverRaises(r) ==
    IF ChunkCounts[run[r].att] = 100
    THEN [run[r] EXCEPT !.pc = "set_latest", !.tries = StoreTries,
                        !.log = Ended(@, "failed")]
    ELSE [run[r] EXCEPT !.att = @ + 1, !.part = 1, !.tries = StoreTries,
                        !.committed = 0,
                        !.log = Append(Ended(@, "failed"),
                                       Attempt(run[r].att + 1))]

\* main.py:320-323: an exception of a part ends the attempt: raised again
\* when i == 100, else the loop goes on with the next chunk count.
PartFailed(r) ==
    IF ChunkCounts[run[r].att] = 100
    THEN [Raise(r, "upload") EXCEPT !.log = Ended(@, "failed")]
    ELSE [run[r] EXCEPT !.att = @ + 1, !.part = 1, !.tries = StoreTries,
                        !.committed = 0,
                        !.log = Append(Ended(@, "failed"),
                                       Attempt(run[r].att + 1))]

\* main.py:315-317, utils.py:76-78: db.upload_forecasts(chunk): an unordered
\* bulk write, which on an error may have applied any of its operations.
UploadForecasts(r) ==
    /\ run[r].pc = "upload"
    /\ LET chunk == Range(ArraySplit(run[r].uploads,
                                     ChunkCounts[run[r].att], run[r].part))
       IN  \E o \in StoreOutcomes, applied \in SUBSET chunk :
            /\ o = "ok" => applied = chunk
            /\ Inject(o)
            /\ forecasts' = BulkWrite(forecasts, applied)
            /\ run' = [run EXCEPT ![r] =
                        [(IF o = "ok" THEN PartCommitted(r)
                          ELSE IF Retried(o, run[r].tries)
                          THEN [run[r] EXCEPT !.tries = @ - 1]
                          ELSE PartFailed(r))
                         EXCEPT !.wrote = @ \/ applied # {}]]
    /\ UNCHANGED <<status, blob, media, pureVars>>

(***************************************************************************)
(* main.py:326-448: the status, the blob, the charts and the cleanup.      *)
(***************************************************************************)
\* main.py:326: db.set_status("latestSuccessfulUpdateSource", data_source).
SetLatest(r) ==
    /\ run[r].pc = "set_latest"
    /\ \E o \in StoreOutcomes :
        /\ Inject(o)
        /\ IF o = "ok"
           THEN /\ status' = [status EXCEPT
                                !.latestSuccessfulUpdateSource = run[r].data_source]
                /\ run' = [run EXCEPT ![r] =
                            [run[r] EXCEPT !.pc = "persist", !.tries = StoreTries,
                                           !.wroteLatest = TRUE, !.wrote = TRUE]]
           ELSE /\ status' = status
                /\ run' = [run EXCEPT ![r] =
                            IF Retried(o, run[r].tries)
                            THEN [run[r] EXCEPT !.tries = @ - 1]
                            ELSE Raise(r, "set_latest")]
    /\ UNCHANGED <<forecasts, blob, media, pureVars>>

\* Every date of the cached status, whatever its age.
StaleChartsOfAnyAge(r) ==
    {d \in Dates : run[r].cache.globalCharts[d] # NoChart}

\* main.py:354-356: the dates of the cached status older than the earliest
\* chart date.
StaleCharts(r) ==
    {d \in Dates : run[r].cache.globalCharts[d] # NoChart /\ d < run[r].earliest}

\* main.py:333-336: save the merged grid and put it in the blob store.
Persist(r) ==
    /\ run[r].pc = "persist"
    /\ \E ok \in BOOLEAN :
        IF ok
        THEN /\ blob' = run[r].data_source
             /\ run' = [run EXCEPT ![r] =
                         [run[r] EXCEPT !.pc = "prune", !.persisted = TRUE,
                                        !.wrote = TRUE,
                                        !.pruneLeft = StaleCharts(r)]]
        ELSE /\ blob' = blob
             /\ run' = [run EXCEPT ![r] = Raise(r, "persist")]
    /\ UNCHANGED <<status, forecasts, media, faults, pureVars>>

SetMin(S) == CHOOSE x \in S : \A y \in S : x <= y

\* main.py:357, utils.py:89-91: db.delete_from_status(f"globalCharts.{date}").
DeleteFromStatus(r) ==
    /\ run[r].pc = "prune"
    /\ run[r].pruneLeft # {}
    /\ \E o \in StoreOutcomes :
        /\ Inject(o)
        /\ LET date == SetMin(run[r].pruneLeft)
           IN  IF o = "ok"
               THEN /\ status' = [status EXCEPT !.globalCharts[date] = NoChart]
                    /\ run' = [run EXCEPT ![r] =
                                [run[r] EXCEPT !.tries = StoreTries, !.wrote = TRUE,
                                               !.pruneLeft = @ \ {date}]]
               ELSE /\ status' = status
                    /\ run' = [run EXCEPT ![r] =
                                IF Retried(o, run[r].tries)
                                THEN [run[r] EXCEPT !.tries = @ - 1]
                                ELSE Raise(r, "prune")]
    /\ UNCHANGED <<forecasts, blob, media, pureVars>>

\* The run after a chart iteration: the next one, or the end of the try block.
NextChart(r) ==
    IF Len(run[r].chartLeft) <= 1
    THEN [run[r] EXCEPT !.pc = "finally", !.tries = StoreTries, !.chartLeft = <<>>]
    ELSE [run[r] EXCEPT !.pc = "chart_put", !.tries = StoreTries,
                        !.chartLeft = Tail(@)]

\* main.py:361-401: the hour-angle shift and the base chart; then the loop
\* over the dates with 24 samples.
Shift(r) ==
    /\ run[r].pc = "prune"
    /\ run[r].pruneLeft = {}
    /\ run' = [run EXCEPT ![r] =
                IF run[r].chartDates = {}
                THEN [run[r] EXCEPT !.pc = "finally"]
                ELSE [run[r] EXCEPT !.pc = "chart_put",
                                    !.chartLeft = ChartJobs(run[r].chartDates)]]
    /\ UNCHANGED <<status, forecasts, blob, media, faults, pureVars>>

\* The answer of the media endpoint to the PUT of a chart.
PutOutcomes == {"201", "other", "error"}

\* A status other than 201 handled as an error of the run.
AfterPutRaisesOnFailure(r, o) ==
    IF o = "201"
    THEN [run[r] EXCEPT !.pc = "chart_status", !.charted = Min(@ + 1, 2 * MaxDate),
                        !.wrote = TRUE]
    ELSE [Raise(r, "chart") EXCEPT !.charted = Min(@ + 1, 2 * MaxDate)]

\* main.py:434-443: a status other than 201 is printed and the loop goes on;
\* 201 leads to the status update.
AfterPut(r, o) ==
    IF o = "201"
    THEN [run[r] EXCEPT !.pc = "chart_status", !.charted = Min(@ + 1, 2 * MaxDate),
                        !.wrote = TRUE]
    ELSE IF o = "other"
    THEN [NextChart(r) EXCEPT !.charted = Min(@ + 1, 2 * MaxDate)]
    ELSE [Raise(r, "chart") EXCEPT !.charted = Min(@ + 1, 2 * MaxDate)]

\* main.py:405-433: render the chart of a date and vertex and PUT it.
ChartPut(r) ==
    /\ run[r].pc = "chart_put"
    /\ \E o \in PutOutcomes :
        /\ media' = IF o = "201"
                    THEN media \cup {<<Head(run[r].chartLeft)[1],
                                       Head(run[r].chartLeft)[2],
                                       run[r].data_source>>}
                    ELSE media
        /\ run' = [run EXCEPT ![r] = [AfterPut(r, o) EXCEPT !.put = o]]
    /\ UNCHANGED <<status, forecasts, blob, faults, pureVars>>

\* main.py:438-440: db.set_status(f"globalCharts.{date}", source label).
ChartStatus(r) ==
    /\ run[r].pc = "chart_status"
    /\ \E o \in StoreOutcomes :
        /\ Inject(o)
        /\ IF o = "ok"
           THEN /\ status' = [status EXCEPT
                                !.globalCharts[Head(run[r].chartLeft)[1]] =
                                    run[r].data_source]
                /\ run' = [run EXCEPT ![r] = NextChart(r)]
           ELSE /\ status' = status
                /\ run' = [run EXCEPT ![r] =
                            IF Retried(o, run[r].tries)
                            THEN [run[r] EXCEPT !.tries = @ - 1]
                            ELSE Raise(r, "chart_status")]
    /\ UNCHANGED <<forecasts, blob, media, pureVars>>

\* main.py:447-448: finally: db.set_status("isUpdating", False).
Cleanup(r) ==
    /\ run[r].pc = "finally"
    /\ \E o \in StoreOutcomes :
        /\ Inject(o)
        /\ IF o = "ok"
           THEN /\ status' = [status EXCEPT !.isUpdating = FALSE]
                /\ run' = [run EXCEPT ![r] =
                            [run[r] EXCEPT !.pc = "done", !.tries = StoreTries,
                                           !.cleanup = "written", !.wrote = TRUE,
                                           !.clearedForeign =
                                               /\ run[r].raised = "set_updating"
                                               /\ status.isUpdating]]
           ELSE /\ status' = status
                /\ run' = [run EXCEPT ![r] =
                            IF Retried(o, run[r].tries)
                            THEN [run[r] EXCEPT !.tries = @ - 1]
                            ELSE [run[r] EXCEPT !.pc = "done", !.tries = StoreTries,
                                                !.cleanup = "raised"]]
    /\ UNCHANGED <<forecasts, blob, media, pureVars>>

\* The process is killed: nothing of main runs any more.
Crash(r) ==
    /\ run[r].pc \notin {"idle", "done", "crashed"}
    /\ run' = [run EXCEPT ![r] = [run[r] EXCEPT !.pc = "crashed"]]
    /\ UNCHANGED <<status, forecasts, blob, media, faults, pureVars>>

\* A step of main() in run r.
Main(r) ==
    \/ GateInit(r)
    \/ Scrape(r)
    \/ GateRecheck(r)
    \/ SetUpdating(r)
    \/ OpenDataset(r)
    \/ OpenDatasetAgain(r)
    \/ Load(r)
    \/ LoadAgain(r)
    \/ Download(r)
    \/ Merge(r)
    \/ UploadForecasts(r)
    \/ SetLatest(r)
    \/ Persist(r)
    \/ DeleteFromStatus(r)
    \/ Shift(r)
    \/ ChartPut(r)
    \/ ChartStatus(r)
    \/ Cleanup(r)

Next == \E r \in Runs : Main(r) \/ Crash(r)

(***************************************************************************)
(* Initial states.                                                         *)
(***************************************************************************)
\* The near-land masks tried: no cell, one cell, every cell but one, every cell.
BatchMasks == {{}, {1}, 2..NumCells, Cells}

\* No pure function is under study in the runs of the pipeline.
PureIdle == inp = Unused /\ out = Unused

\* Several runs started on one status document, each with a small batch.
Init ==
    /\ status \in {s \in StatusDocs :
                     /\ s.latestSuccessfulUpdateSource = "gfsA"
                     /\ s.globalCharts = [d \in Dates |-> IF d = 1 THEN "gfsA" ELSE NoChart]}
    /\ forecasts = [k \in Keys |-> Absent]
    /\ blob = "gfsA"
    /\ media = {}
    /\ faults = GateFaults
    /\ \E n \in 0..NumRuns :
         run = [r \in Runs |->
                  NewRun(r <= n, IF r <= n THEN "gfsB" ELSE NoSource, {1}, {2}, 2)]
    /\ PureIdle

Spec == Init /\ [][Next]_vars

\* One run, alone, with every batch size and every fault.
InitRun ==
    /\ status \in {s \in StatusDocs :
                     /\ s.latestSuccessfulUpdateSource = "gfsA"
                     /\ s.globalCharts = [d \in Dates |-> "gfsA"]}
    /\ forecasts \in {[k \in Keys |-> Absent],
                      [k \in Keys |-> "gfsA"]}
    /\ blob = "gfsA"
    /\ media = {}
    /\ faults = -1
    /\ \E o \in BOOLEAN, m \in BatchMasks, cd \in {{}, Dates}, e \in {MaxDate} :
         run = [r \in Runs |->
                  IF r = 1
                  THEN NewRun(o, IF o THEN "gfsB" ELSE NoSource, m, cd, e)
                  ELSE IdleRun]
    /\ PureIdle

SpecRun == InitRun /\ [][Next]_vars

\* One run, alone, on a store that never fails.
InitNoFaults ==
    /\ status \in {s \in StatusDocs :
                     /\ s.latestSuccessfulUpdateSource = "gfsA"
                     /\ s.globalCharts = [d \in Dates |-> "gfsA"]}
    /\ forecasts = [k \in Keys |-> Absent]
    /\ blob = "gfsA"
    /\ media = {}
    /\ faults = 0
    /\ \E o \in BOOLEAN :
         run = [r \in Runs |->
                  IF r = 1
                  THEN NewRun(o, IF o THEN "gfsB" ELSE NoSource, Cells, Dates, MaxDate)
                  ELSE IdleRun]
    /\ PureIdle

\* A process that has not crashed goes on running main().
FairSpec == InitNoFaults /\ [][Next]_vars /\ \A r \in Runs : WF_vars(Main(r))

(***************************************************************************)
(* The update gate.                                                        *)
(***************************************************************************)
\* Run r is inside its update section: it wrote isUpdating = true and has
\* not yet left the finally block.
InSection(r) == run[r].entered /\ run[r].pc \notin {"done", "crashed"}

\* C1 as stated: across every interleaving of the runs, at most one run at a
\* time is inside its update section.
MutualExclusion == Cardinality({r \in Runs : InSection(r)}) <= 1

\* No write of the flag went against the state of the flag: no run wrote
\* isUpdating = true over a flag that was already true, and no run whose own
\* write of true raised cleared a flag that was true.
NoRace == \A r \in Runs : ~run[r].stale /\ ~run[r].clearedForeign

\* C1 as amended: at most one run at a time is inside its update section as
\* long as no run has written isUpdating = true over a flag already true
\* (its gate read was stale by then) and no run whose own write of true
\* raised has cleared a flag that was true.
MutualExclusionUnlessRaced == NoRace => MutualExclusion

\* Two runs held the gate one after the other: the first has left its update
\* section, the second is inside its own, and no race happened.
GateHandedOver ==
    /\ NoRace
    /\ \E r1, r2 \in Runs :
        /\ r1 # r2
        /\ run[r1].entered /\ run[r1].pc = "done" /\ run[r1].cleanup = "written"
        /\ InSection(r2)

\* C2: after a run has written isUpdating = true, and unless the process
\* crashes, the run eventually writes isUpdating = false.
EventuallyReleased ==
    \A r \in Runs :
        run[r].entered ~> (run[r].cleanup = "written" \/ run[r].pc = "crashed")

\* C3: a run whose gate read showed isUpdating = true exits and has written
\* nothing: not the status document (it does not clear isUpdating), not the
\* forecast collection, not the blob store.
RejectedRunWritesNothing ==
    \A r \in Runs :
        run[r].rejected =>
            /\ run[r].pc \in {"done", "crashed"}
            /\ ~run[r].wrote
            /\ run[r].cleanup = "none"
            /\ ~run[r].entered

\* A run was rejected while another run is inside its update section, the
\* flag still set.
RejectedWhileUpdating ==
    \E r1, r2 \in Runs :
        /\ r1 # r2
        /\ run[r1].rejected /\ run[r1].pc = "done"
        /\ InSection(r2)
        /\ status.isUpdating

\* C4 as stated: on every path the write isUpdating = true is preceded by
\* two reads of the status that both showed isUpdating = false.
TwoReadsBeforeUpdating ==
    \A r \in Runs : run[r].entered => run[r].freshReads = 2

\* C4 as amended: with a scraped source the write isUpdating = true is
\* preceded by two reads that showed isUpdating = false, the one at start-up
\* and the fresh one before committing to the source; with an explicit
\* source (DATA_SOURCE_URL) it is preceded by the read at start-up alone.
ReadsBeforeUpdating ==
    \A r \in Runs :
        run[r].entered =>
            run[r].freshReads = (IF run[r].override THEN 1 ELSE 2)

\* A run with a scraped source has written isUpdating = true after its two
\* reads.
EnteredAfterTwoReads ==
    \E r \in Runs :
        run[r].entered /\ ~run[r].override /\ run[r].freshReads = 2

(***************************************************************************)
(* The upload loop.                                                        *)
(***************************************************************************)
Last(log) == log[Len(log)]

\* The chunk counts are tried in the order 12, 13, 15, 20, 30, 50, 100, a
\* later one only after every earlier one failed; the parts of the attempt
\* in progress are committed one after the other; nothing is tried after an
\* attempt whose parts all committed, nor after the attempt with 100 parts.
UploadOrder(r) ==
    LET log == run[r].log
        order == <<12, 13, 15, 20, 30, 50, 100>>
    IN  /\ Len(log) <= Len(order)
        /\ \A i \in 1..Len(log) : log[i].count = order[i]
        /\ \A i \in 1..(Len(log) - 1) : log[i].outcome = "failed"
        /\ run[r].pc = "upload" => (log # <<>> /\ Last(log).outcome = "running")
        /\ (log # <<>> /\ Last(log).outcome = "running") =>
            run[r].pc \in {"upload", "crashed"}
        /\ run[r].pc = "upload" =>
            /\ run[r].part \in 1..Last(log).count
            /\ run[r].committed = run[r].part - 1
        /\ (log # <<>> /\ Last(log).outcome = "ok") =>
            run[r].committed = Last(log).count
        /\ (log # <<>> /\ Last(log).outcome = "failed") =>
            /\ Last(log).count = 100
            /\ run[r].committed < 100

\* A step that ends an attempt by an exception abandons its remaining parts:
\* if another chunk count is left, the next attempt starts, with the next
\* count, at the first part of the batch split again.
AbandonsAttempt(r) ==
    (run[r].pc = "upload" /\ run'[r].log # run[r].log
        /\ Last(run[r].log).count # 100) =>
        \/ /\ Last(run'[r].log).outcome = "ok"
           /\ run[r].part = Last(run[r].log).count
        \/ /\ Len(run'[r].log) = Len(run[r].log) + 1
           /\ run[r].part <= Last(run[r].log).count
           /\ run'[r].log[Len(run[r].log)].outcome = "failed"
           /\ run'[r].pc = "upload"
           /\ run'[r].part = 1
           /\ run'[r].committed = 0
           /\ ArraySplit(run'[r].uploads, Last(run'[r].log).count, 1)
                = SubSeq(run[r].uploads, 1,
                         Len(ArraySplit(run'[r].uploads,
                                        Last(run'[r].log).count, 1)))

\* C5: the upload loop tries the chunk counts in exactly the order 12, 13,
\* 15, 20, 30, 50, 100; within an attempt the parts are committed one after
\* the other; the first exception in an attempt abandons its remaining parts
\* and the whole batch is split again for the next count; a later count is
\* tried only after the previous one failed, and none after an attempt in
\* which every part committed.
UploadEscalation ==
    /\ [](\A r \in Runs : UploadOrder(r))
    /\ [][\A r \in Runs : AbandonsAttempt(r)]_vars

\* The attempt with 100 parts succeeded after the six before it had failed.
UploadedInHundredParts ==
    \E r \in Runs :
        /\ Len(run[r].log) = 7
        /\ Last(run[r].log).outcome = "ok"
        /\ run[r].pc = "set_latest"

\* Where a run stands after its upload was fatal: 100 parts were tried last
\* and every count before failed; the source is not recorded, the merged
\* grid not persisted, no chart made.
FatalUpload(r) ==
    /\ Len(run[r].log) = 7
    /\ \A i \in 1..7 : run[r].log[i].outcome = "failed"
    /\ run[r].pc \in {"finally", "done", "crashed"}
    /\ ~run[r].wroteLatest
    /\ ~run[r].persisted
    /\ run[r].charted = 0
    /\ \A d \in Dates, v \in Range(Vertices) : <<d, v, run[r].data_source>> \notin media

\* An error of the upload loop ends the run only from the attempt with 100
\* parts.
OnlyExhaustionIsFatal ==
    \A r \in Runs :
        /\ run[r].raised = "upload" => FatalUpload(r)
        /\ (run[r].log # <<>> /\ Last(run[r].log).outcome = "failed") =>
               run[r].raised = "upload"

\* C6 as stated: when the attempt with 100 parts fails too, the error leaves
\* main with no further upload attempt, latestSuccessfulUpdateSource not
\* written, the grid not persisted, no chart, and isUpdating written false
\* by the cleanup block; a failure of an earlier count alone is never fatal.
ExhaustionReleasesGate ==
    /\ OnlyExhaustionIsFatal
    /\ \A r \in Runs :
        (run[r].raised = "upload" /\ run[r].pc = "done") =>
            run[r].cleanup = "written" /\ ~status.isUpdating

\* C6 as amended: when the attempt with 100 parts fails too, the error
\* leaves main with no further upload attempt, latestSuccessfulUpdateSource
\* not written, the grid not persisted and no chart; the cleanup block then
\* issues the write isUpdating = false, which leaves the flag false unless
\* that write raises as well.  A failure of an earlier count alone is never
\* fatal.
ExhaustionReachesCleanup ==
    /\ OnlyExhaustionIsFatal
    /\ \A r \in Runs :
        (run[r].raised = "upload" /\ run[r].pc = "done") =>
            \/ run[r].cleanup = "written" /\ ~status.isUpdating
            \/ run[r].cleanup = "raised" /\ status.isUpdating

\* A run ended by the failure of the attempt with 100 parts, the flag
\* cleared by its cleanup block.
ExhaustedAndReleased ==
    \E r \in Runs :
        /\ run[r].raised = "upload" /\ run[r].pc = "done"
        /\ run[r].cleanup = "written"
        /\ ~status.isUpdating

(***************************************************************************)
(* The upload loop run on one batch, and run again on the same batch.      *)
(***************************************************************************)
\* The contents of the forecast collection tried.
Collections ==
    {[k \in Keys |-> Absent],
     [k \in Keys |-> "gfsA"],
     [k \in Keys |-> "gfsB"],
     [k \in Keys |-> IF k[2] = 0 THEN "gfsA" ELSE Absent]}

\* Run 1 is about to upload a batch into a collection.
InitUpload ==
    /\ status = [isUpdating |-> TRUE,
                 latestSuccessfulUpdateSource |-> "gfsA",
                 globalCharts |-> [d \in Dates |-> NoChart]]
    /\ forecasts \in Collections
    /\ blob = "gfsA"
    /\ media = {}
    /\ faults = -1
    /\ \E m \in BatchMasks :
         run = [r \in Runs |->
                  IF r = 1
                  THEN StartUpload([NewRun(TRUE, "gfsB", m, {}, 1) EXCEPT
                                       !.data_source = "gfsB", !.entered = TRUE],
                                   Uploads(m, "gfsB"))
                  ELSE IdleRun]
    /\ inp = [coll0 |-> forecasts, round |-> 1]
    /\ out = [first |-> forecasts, firstOk |-> FALSE]

\* The upload loop has ended, by a success or by the failure of its last
\* attempt, and is run again on the identical batch.
Rerun(r) ==
    /\ run[r].pc \in {"set_latest", "finally"}
    /\ inp.round < MaxRounds
    /\ inp' = [inp EXCEPT !.round = @ + 1]
    /\ out' = IF inp.round = 1
              THEN [first |-> forecasts, firstOk |-> run[r].pc = "set_latest"]
              ELSE out
    /\ run' = [run EXCEPT ![r] = StartUpload(run[r], run[r].uploads)]
    /\ UNCHANGED <<status, forecasts, blob, media, faults>>

NextUpload == \E r \in Runs : UploadForecasts(r) \/ Rerun(r)

SpecUpload == InitUpload /\ [][NextUpload]_vars

\* The collection after the batch was applied once: each key of the batch
\* holds the document of the batch, every other key what it held before.
AppliedOnce(coll0, uploads) ==
    [k \in Keys |->
        IF \E i \in 1..Len(uploads) : uploads[i].id = k
        THEN uploads[CHOOSE i \in 1..Len(uploads) : uploads[i].id = k].data
        ELSE coll0[k]]

\* C7: whatever the collection held at first, each run of the upload loop
\* that ends with a success leaves it as one application of the batch does:
\* the second run on the identical batch leaves what the first one left,
\* also when the first one failed after committing only some parts.
UploadIdempotent ==
    \A r \in Runs :
        run[r].pc = "set_latest" =>
            /\ forecasts = AppliedOnce(inp.coll0, run[r].uploads)
            /\ (inp.round > 1 /\ out.firstOk) => forecasts = out.first

\* The first run failed having committed some operations but not all; the
\* second run on the same batch has succeeded.
ReappliedAfterPartialFailure ==
    \E r \in Runs :
        /\ run[r].pc = "set_latest"
        /\ inp.round = 2
        /\ ~out.firstOk
        /\ out.first # inp.coll0
        /\ out.first # AppliedOnce(inp.coll0, run[r].uploads)

(***************************************************************************)
(* main.py:256-276: the encoding of a cell.                                *)
(***************************************************************************)
\* The pipeline at rest while a pure function is under study.
PipeIdle ==
    /\ status = [isUpdating |-> FALSE,
                 latestSuccessfulUpdateSource |-> "gfsA",
                 globalCharts |-> [d \in Dates |-> NoChart]]
    /\ forecasts = [k \in Keys |-> Absent]
    /\ blob = "gfsA"
    /\ media = {}
    /\ faults = 0
    /\ run = [r \in Runs |-> IdleRun]

\* round() of numpy: num / den rounded to the nearest integer, halves to the
\* even one.
Round(num, den) ==
    LET q == num \div den
        rem == num % den
    IN  IF 2 * rem < den THEN q
        ELSE IF 2 * rem > den THEN q + 1
        ELSE IF q % 2 = 0 THEN q ELSE q + 1

\* The field of the wet-bulb temperature made 1000 wide.
EncodeNarrowField(utci, wbgt, hour) ==
    (Round(utci + 10000, 10) * 1000 + Round(wbgt + 10000, 10)) * 200 + hour

\* main.py:257-276: utci and wbgt in hundredths of a degree, the time offset
\* in hours: ((utci + 100) * 10).round() * 2000 + ((wbgt + 100) * 10).round(),
\* in int32, then * 200 + time_offset.  The integers of the model checker are
\* the int32 range, and a product that leaves it stops the run with an
\* overflow error: a run that ends has shown that no intermediate value of the
\* temperatures tried leaves int32.
Encode(utci, wbgt, hour) ==
    (Round(utci + 10000, 10) * 2000 + Round(wbgt + 10000, 10)) * 200 + hour

\* The inverse stated for the readers of tempTimesEncoded: division and
\* modulo by 200, then by 2000; the temperatures back in hundredths.
Decode(code) ==
    <<10 * ((code \div 200) \div 2000) - 10000,
      10 * ((code \div 200) % 2000) - 10000,
      code % 200>>

\* Temperatures tried, in hundredths of a degree: the tenths next to -100.0,
\* to 0.0 and to 99.9, and values off the tenths or outside the domain.
TempSamples ==
    {-10000 + 10 * i : i \in 0..EncSpan}
        \cup {10 * i : i \in -EncSpan..EncSpan}
        \cup {9990 - 10 * i : i \in 0..EncSpan}
        \cup {-10010, -6, 4, 5, 15, 9995, 10000}

\* Hour offsets tried: next to 0 and to 199, and 200.
HourSamples == (0..EncSpan) \cup ((199 - EncSpan)..200)

InitEncode ==
    /\ PipeIdle
    /\ inp \in [utci : TempSamples, wbgt : TempSamples, hour : HourSamples]
    /\ out = [stage |-> "input"]

\* The cell is encoded.
EncodeCell ==
    /\ out.stage = "input"
    /\ out' = [stage |-> "encoded", code |-> Encode(inp.utci, inp.wbgt, inp.hour)]
    /\ UNCHANGED <<pipeVars, inp>>

\* A reader decodes the cell.
DecodeCell ==
    /\ out.stage = "encoded"
    /\ out' = [stage |-> "decoded", code |-> out.code, cell |-> Decode(out.code)]
    /\ UNCHANGED <<pipeVars, inp>>

NextEncode == EncodeCell \/ DecodeCell

SpecEncode == InitEncode /\ [][NextEncode]_vars

\* The domain of the encoding: temperatures from -100.0 to 99.9 in steps of
\* 0.1, hour offsets from 0 to 199.
InEncodingDomain(c) ==
    /\ c.utci % 10 = 0 /\ -10000 <= c.utci /\ c.utci <= 9990
    /\ c.wbgt % 10 = 0 /\ -10000 <= c.wbgt /\ c.wbgt <= 9990
    /\ 0 <= c.hour /\ c.hour <= 199

\* C8: for utci and wbgt from -100.0 to 99.9 in steps of 0.1 and an hour
\* offset from 0 to 199, decoding the code by division and modulo by 200,
\* then by 2000, gives back exactly utci, wbgt and the hour offset.
EncodeRoundTrip ==
    (out.stage = "decoded" /\ InEncodingDomain(inp)) =>
        out.cell = <<inp.utci, inp.wbgt, inp.hour>>

\* The largest cell of the domain, 99.9 and 99.9 at hour 199, went through
\* the encoder and the decoder.
LargestCellDecoded ==
    /\ out.stage = "decoded"
    /\ inp = [utci |-> 9990, wbgt |-> 9990, hour |-> 199]
    /\ out.code = 799999999

(***************************************************************************)
(* main.py:219-243: the retention times.                                   *)
(***************************************************************************)
\* pd.Timestamp.floor("d"): the midnight at or before hour t.
FloorDay(t) == t - (t % 24)

\* main.py:221: earliest_global_chart_to_update.
EarliestGlobalChartToUpdate(first) == FloorDay(first)

\* main.py:226-228: earliest_current_haa_utc_date.
EarliestCurrentHaaUtcDate(now) == FloorDay(now - 11)

\* main.py:230-232: earliest_global_chart_date.
EarliestGlobalChartDate(now) == EarliestCurrentHaaUtcDate(now) - 24

\* The chart data taken from the midnight itself, nothing for the shift.
EarliestGlobalChartDataUnshifted(first) == EarliestGlobalChartToUpdate(first)

\* main.py:234-236: earliest_global_chart_data.
EarliestGlobalChartData(first) == EarliestGlobalChartToUpdate(first) - 12

\* The forecast time taken 11 hours back instead of 25.
EarliestForecastTimeShort(now) == FloorDay(now - 11)

\* main.py:238-240: earliest_forecast_time.
EarliestForecastTime(now) == FloorDay(now - 25)

\* The later of the two times taken.
LatestNecessaryData(now, first) ==
    IF EarliestForecastTime(now) >= EarliestGlobalChartData(first)
    THEN EarliestForecastTime(now)
    ELSE EarliestGlobalChartData(first)

\* main.py:241-243: earliest_necessary_data = min(...).
EarliestNecessaryData(now, first) ==
    IF EarliestForecastTime(now) <= EarliestGlobalChartData(first)
    THEN EarliestForecastTime(now)
    ELSE EarliestGlobalChartData(first)

Hours == 0..MaxHour

InitTimes ==
    /\ PipeIdle
    /\ inp \in [now : Hours, first : Hours]
    /\ out = [stage |-> "input"]

\* main.py:219-243.
Times ==
    /\ out.stage = "input"
    /\ out' = [stage |-> "planned",
               earliest_global_chart_date |-> EarliestGlobalChartDate(inp.now),
               earliest_necessary_data |-> EarliestNecessaryData(inp.now, inp.first)]
    /\ UNCHANGED <<pipeVars, inp>>

NextTimes == Times

SpecTimes == InitTimes /\ [][NextTimes]_vars

\* C9: for every wall-clock time now and every first timestamp of the new
\* grid, the retention cutoff is at or before the first timestamp of the new
\* grid.
RetentionMonotone ==
    out.stage = "planned" => out.earliest_necessary_data <= inp.first

\* The cutoff nearest to the new grid: the grid starts at a midnight and the
\* cutoff, set by the chart data, is 12 hours before it.
CutoffTwelveHoursBefore ==
    /\ out.stage = "planned"
    /\ inp.first % 24 = 0
    /\ out.earliest_necessary_data = inp.first - 12
    /\ EarliestForecastTime(inp.now) > out.earliest_necessary_data

(***************************************************************************)
(* main.py:245-250: the merge of the new grid with the prior grid.  A grid *)
(* is its time coordinate and, per timestamp, the value of one cell; the   *)
(* merge works cell by cell.                                               *)
(***************************************************************************)
NaN == "nan"

\* The whole hours from lo to hi, in increasing order.
HoursFrom(lo, hi) == [i \in 1..(hi - lo + 1) |-> lo + i - 1]

\* The timestamps of S in increasing order: a sorted time index.
Index(S) ==
    IF S = {} THEN <<>>
    ELSE LET lo == CHOOSE x \in S : \A y \in S : x <= y
             hi == CHOOSE x \in S : \A y \in S : x >= y
         IN  SelectSeq(HoursFrom(lo, hi), LAMBDA t : t \in S)

\* A grid over the timestamps of f, a function from timestamps to values.
Grid(f) == [time |-> Index(DOMAIN f), val |-> f]

\* main.py:249: prior.sel(time=slice(earliest_necessary_data, None)).
Sel(grid, cutoff) ==
    LET kept == {t \in DOMAIN grid.val : t >= cutoff}
    IN  [time |-> SelectSeq(grid.time, LAMBDA t : t >= cutoff),
         val |-> [t \in kept |-> grid.val[t]]]

\* The two time indexes one after the other, nothing joined.
Concat(a, b) == a \o b

\* The outer join of two sorted time indexes: every timestamp of either,
\* once, in increasing order.
Union(a, b) ==
    IF a = <<>> THEN b
    ELSE IF b = <<>> THEN a
    ELSE LET lo == Min(a[1], b[1])
             hi == IF a[Len(a)] >= b[Len(b)] THEN a[Len(a)] ELSE b[Len(b)]
             either == Range(a) \cup Range(b)
         IN  SelectSeq(HoursFrom(lo, hi), LAMBDA t : t \in either)

\* other.combine_first(ds): the value of other wherever it has one.
CombineFirstOther(ds, other) ==
    LET time == Union(ds.time, other.time)
        both == DOMAIN ds.val \cup DOMAIN other.val
    IN  [time |-> time,
         val |-> [t \in both |->
                    IF t \in DOMAIN other.val /\ other.val[t] # NaN
                    THEN other.val[t]
                    ELSE IF t \in DOMAIN ds.val THEN ds.val[t] ELSE NaN]]

\* main.py:248: ds.combine_first(other): the coordinates are joined, and a
\* value of ds that is missing or NaN is filled from other.
CombineFirst(ds, other) ==
    LET time == Union(ds.time, other.time)
        both == DOMAIN ds.val \cup DOMAIN other.val
    IN  [time |-> time,
         val |-> [t \in both |->
                    IF t \in DOMAIN ds.val /\ ds.val[t] # NaN
                    THEN ds.val[t]
                    ELSE IF t \in DOMAIN other.val THEN other.val[t] ELSE NaN]]

\* main.py:245-250.
Merged(now, ds, prior) ==
    CombineFirst(ds, Sel(prior, EarliestNecessaryData(now, ds.time[1])))

\* The new grid starts in the second day, one hour after a model cycle.
FirstSamples == {49, 67}

\* Wall-clock times that put the day before "now - 25 h" at hours 0, 24, 48.
NowSamples == {48, 54, 73}

NewTimes(first) == first..(first + NewLen - 1)

\* Timestamps the prior grid may hold besides those of the new grid: around
\* the cutoffs, and next to the new grid.
PriorTimes(first) == {23, 24, 35, 36, 37, first - 1, first + NewLen}

\* The new grids: NewLen hourly timestamps, each value present or NaN.
NewGrids(first) == {Grid(f) : f \in [NewTimes(first) -> {"new", NaN}]}

\* The prior grids: any of the timestamps, a value at each, NaN only where
\* the new grid has a timestamp too.
PriorGrids(first) ==
    {Grid([t \in a \cup DOMAIN f |-> IF t \in a THEN "prior" ELSE f[t]]) :
        <<a, f>> \in (SUBSET PriorTimes(first))
                       \X UNION {[b -> {"prior", NaN}] : b \in SUBSET NewTimes(first)}}

InitMerge ==
    /\ PipeIdle
    /\ \E first \in FirstSamples :
          inp \in [now : NowSamples, ds : NewGrids(first), prior : PriorGrids(first)]
    /\ out = [stage |-> "input"]

\* main.py:245-250.
MergeGrids ==
    /\ out.stage = "input"
    /\ out' = [stage |-> "merged",
               cutoff |-> EarliestNecessaryData(inp.now, inp.ds.time[1]),
               ds |-> Merged(inp.now, inp.ds, inp.prior)]
    /\ UNCHANGED <<pipeVars, inp>>

NextMerge == MergeGrids

SpecMerge == InitMerge /\ [][NextMerge]_vars

\* C10: the time coordinate of the merged grid holds exactly the timestamps
\* of the new grid or of the prior grid that are at or after the retention
\* cutoff, in strictly increasing order and none twice; at each timestamp the
\* value is the new grid's where the new grid has one, the prior grid's
\* otherwise.
MergedIsUnion ==
    out.stage = "merged" =>
        LET new == inp.ds.val
            old == inp.prior.val
            time == out.ds.time
        IN  /\ Range(time) = {t \in DOMAIN new \cup DOMAIN old : t >= out.cutoff}
            /\ \A i, j \in 1..Len(time) : i < j => time[i] < time[j]
            /\ DOMAIN out.ds.val = Range(time)
            /\ \A t \in Range(time) :
                  out.ds.val[t] = IF t \in DOMAIN new /\ new[t] # NaN THEN new[t]
                                  ELSE IF t \in DOMAIN old THEN old[t]
                                  ELSE NaN

\* A merge where every case happens: a prior timestamp before the cutoff is
\* dropped, one at the cutoff is kept, the new grid wins where both have a
\* value, and the prior grid fills a NaN of the new grid.
MergedEveryCase ==
    /\ out.stage = "merged"
    /\ \E t \in DOMAIN inp.prior.val : t < out.cutoff
    /\ out.cutoff \in Range(out.ds.time)
    /\ \E t \in DOMAIN inp.ds.val \cap DOMAIN inp.prior.val :
          inp.ds.val[t] = "new" /\ inp.prior.val[t] = "prior"
    /\ \E t \in DOMAIN inp.ds.val \cap DOMAIN inp.prior.val :
          inp.ds.val[t] = NaN /\ out.ds.val[t] = "prior"

(***************************************************************************)
(* main.py:245-250: a grid merged with itself.                             *)
(***************************************************************************)
\* The timestamps a grid may hold, and the cutoffs tried: before every
\* timestamp, at a timestamp, between two, after every timestamp.
SelfTimes == PriorTimes(49) \cup NewTimes(49)

SelfCutoffs == {0, 24, 36, 49 + NewLen + 1}

\* The grids: any timestamps, a value or NaN at each.
SelfGrids ==
    {Grid(f) : f \in UNION {[a -> {"new", NaN}] : a \in SUBSET SelfTimes \ {{}}}}

InitSelfMerge ==
    /\ PipeIdle
    /\ inp \in [ds : SelfGrids, cutoff : SelfCutoffs]
    /\ out = [stage |-> "input"]

\* main.py:246-250, the prior grid being the new grid itself.
MergeWithSelf ==
    /\ out.stage = "input"
    /\ out' = [stage |-> "merged",
               ds |-> CombineFirst(inp.ds, Sel(inp.ds, inp.cutoff))]
    /\ UNCHANGED <<pipeVars, inp>>

NextSelfMerge == MergeWithSelf

SpecSelfMerge == InitSelfMerge /\ [][NextSelfMerge]_vars

\* C11: for every grid G and every cutoff, merging G as the new grid with G
\* as the prior grid gives G unchanged: the same timestamps and the same
\* values.
MergeIdempotent == out.stage = "merged" => out.ds = inp.ds

\* A grid with a NaN, cut in the middle, was merged with itself.
SelfMergedAcrossCutoff ==
    /\ out.stage = "merged"
    /\ \E t \in DOMAIN inp.ds.val : t < inp.cutoff
    /\ \E t \in DOMAIN inp.ds.val : t >= inp.cutoff /\ inp.ds.val[t] = NaN
    /\ \E t \in DOMAIN inp.ds.val : t >= inp.cutoff /\ inp.ds.val[t] = "new"

(***************************************************************************)
(* main.py:361-367: the hour-angle bucket of a longitude.                  *)
(***************************************************************************)
\* Buckets from 12 on wrapped down by 24.
UtcHourAngleFromTwelve(lon) ==
    LET hour_angle == Round(lon, 1500)
    IN  IF hour_angle >= 12 THEN hour_angle - 24 ELSE hour_angle

\* main.py:363-364: hour_angle = (ds.lon / 15).round().astype(int), and
\* xr.where(hour_angle > 12, hour_angle - 24, hour_angle); the longitude in
\* hundredths of a degree.
UtcHourAngle(lon) ==
    LET hour_angle == Round(lon, 1500)
    IN  IF hour_angle > 12 THEN hour_angle - 24 ELSE hour_angle

\* The longitudes of the 0.25 degree grid from 0 to 360, the cyclic point
\* of main.py:345-348 included.
Lons == {25 * k : k \in 0..1440}

InitHourAngle ==
    /\ PipeIdle
    /\ inp \in [lon : Lons]
    /\ out = [stage |-> "input"]

\* main.py:363-364.
HourAngle ==
    /\ out.stage = "input"
    /\ out' = [stage |-> "bucketed", utc_hour_angle |-> UtcHourAngle(inp.lon)]
    /\ UNCHANGED <<pipeVars, inp>>

NextHourAngle == HourAngle

SpecHourAngle == InitHourAngle /\ [][NextHourAngle]_vars

\* C12 as stated: longitude 180 is mapped to bucket -12, longitude 0 to
\* bucket 0, longitude 190 to bucket -12, and every longitude from 0 to 360
\* to a bucket from -12 to 12.
BucketsAsStated ==
    out.stage = "bucketed" =>
        /\ inp.lon = 18000 => out.utc_hour_angle = -12
        /\ inp.lon = 0 => out.utc_hour_angle = 0
        /\ inp.lon = 19000 => out.utc_hour_angle = -12
        /\ out.utc_hour_angle \in -12..12

\* C12 as amended: longitude 180 is mapped to bucket 12 (12 is not above
\* 12, so it is not wrapped), longitude 0 to bucket 0, longitude 190 to
\* bucket -11 (round(190 / 15) = 13, wrapped to -11), and every longitude
\* from 0 to 360 to a bucket from -11 to 12.
BucketsOfFormula ==
    out.stage = "bucketed" =>
        /\ inp.lon = 18000 => out.utc_hour_angle = 12
        /\ inp.lon = 0 => out.utc_hour_angle = 0
        /\ inp.lon = 19000 => out.utc_hour_angle = -11
        /\ out.utc_hour_angle \in -11..12

\* Longitude 180 has been given its bucket, 12.
AntimeridianBucketed ==
    /\ out.stage = "bucketed"
    /\ inp.lon = 18000
    /\ out.utc_hour_angle = 12

(***************************************************************************)
(* The chart loop.                                                         *)
(***************************************************************************)
\* Run r takes a step in which the PUT of a chart is answered with a status
\* other than 201.
PutRefused(r) ==
    /\ run[r].pc = "chart_put"
    /\ run'[r] # run[r]
    /\ run'[r].pc # "crashed"
    /\ run'[r].put = "other"

\* After a refused PUT the status document is as before, no error is raised
\* and the loop is at its next iteration, or over when this was the last one.
SkipsRefusedChart(r) ==
    PutRefused(r) =>
        /\ status' = status
        /\ run'[r].raised = "none"
        /\ IF Len(run[r].chartLeft) > 1
           THEN run'[r].pc = "chart_put" /\ run'[r].chartLeft = Tail(run[r].chartLeft)
           ELSE run'[r].pc = "finally" /\ run'[r].chartLeft = <<>>

\* A step that sets globalCharts[d] to a source is the status update of a
\* run whose PUT of a chart of date d was answered with 201, and the source
\* is the label of that run.
RecordsOnlyAfterCreated(d) ==
    (status'.globalCharts[d] # status.globalCharts[d]
        /\ status'.globalCharts[d] # NoChart) =>
        \E r \in Runs :
            /\ run[r].pc = "chart_status"
            /\ Head(run[r].chartLeft)[1] = d
            /\ status'.globalCharts[d] = run[r].data_source
            /\ <<d, Head(run[r].chartLeft)[2], run[r].data_source>> \in media

\* C13: a chart upload answered with a status other than 201 writes no
\* globalCharts[date], and the run goes on with the remaining vertices and
\* dates without being aborted; globalCharts[date] is set to the source label
\* of the run only after an upload for that date was answered with 201.
RefusedChartSkipped ==
    [][/\ \A r \in Runs : SkipsRefusedChart(r)
       /\ \A d \in Dates : RecordsOnlyAfterCreated(d)]_vars

\* A run went through all four charts of two dates: the first three were
\* refused, the last was created and recorded, and the run ended normally.
ChartedAfterRefusals ==
    \E r \in Runs :
        /\ run[r].pc = "done" /\ run[r].raised = "none"
        /\ run[r].charted = 2 * MaxDate
        /\ media = {<<MaxDate, Vertices[2], run[r].data_source>>}
        /\ status.globalCharts[MaxDate] = run[r].data_source
        /\ status.globalCharts[1] # run[r].data_source

(***************************************************************************)
(* main.py:219-250: what the retention cutoff keeps.                       *)
(***************************************************************************)
\* The start, in quarters of an hour, of the local calendar day in progress
\* at the wall-clock time nowQ where local time is UTC plus offsetQ.
LocalDayStart(nowQ, offsetQ) ==
    (nowQ + offsetQ) - ((nowQ + offsetQ) % 96) - offsetQ

\* C14: for every wall-clock time now and every first timestamp of the new
\* grid, the retention cutoff is at or before the start of the local
\* calendar day in progress at every UTC offset from -12 h to +12 h with one
\* hour of daylight-saving slack, so no hour of a local day still in
\* progress is cut from the prior grid.
RetainsLocalDay ==
    out.stage = "planned" =>
        \A quarter \in 0..3, offsetQ \in -52..52 :
            4 * out.earliest_necessary_data
                <= LocalDayStart(4 * inp.now + quarter, offsetQ)

\* The cutoff is set by the wall clock and is a midnight exactly 25 hours
\* before now: the local day that began 23 hours ago is two hours after it.
CutoffTwentyFiveHoursBack ==
    /\ out.stage = "planned"
    /\ out.earliest_necessary_data = inp.now - 25
    /\ EarliestGlobalChartData(inp.first) > out.earliest_necessary_data
    /\ \E offsetQ \in -52..52 : LocalDayStart(4 * inp.now, offsetQ) = 4 * (inp.now - 23)

\* C15 as stated: for every wall-clock time now and every first timestamp of
\* the new grid, the retention cutoff is at or before earliestChartDate
\* minus the 12 hours of the hour-angle shift, so every chart date from
\* earliestChartDate on keeps its full shifted day of prior data.
RetainsFromEarliestChartDate ==
    out.stage = "planned" =>
        out.earliest_necessary_data <= out.earliest_global_chart_date - 12

\* C15 as amended: the retention cutoff is at or before the midnight of the
\* first timestamp of the new grid minus the 12 hours of the hour-angle
\* shift, so every chart date that the new data can change keeps its full
\* shifted day; the cutoff is at or before earliestChartDate minus 12 hours
\* only when the new grid starts on earliestChartDate or before it.
RetainsFromFirstChartToUpdate ==
    out.stage = "planned" =>
        /\ out.earliest_necessary_data <= EarliestGlobalChartToUpdate(inp.first) - 12
        /\ EarliestGlobalChartToUpdate(inp.first) <= out.earliest_global_chart_date =>
              out.earliest_necessary_data <= out.earliest_global_chart_date - 12

\* A run at 11:00 of a day with a new grid that starts at 07:00 of that day:
\* earliestChartDate is the day before, and the cutoff is the midnight of
\* that day, later than earliestChartDate minus 12 hours.
CutoffAfterEarliestChartData ==
    /\ out.stage = "planned"
    /\ inp.now = 59 /\ inp.first = 55
    /\ out.earliest_global_chart_date = 24
    /\ out.earliest_necessary_data = 24

(***************************************************************************)
(* utils.py:64-91: the operations of Database, called one after the other  *)
(* on a Database whose constructor has fetched the status.                 *)
(***************************************************************************)
\* The chunks handed to upload_forecasts: the first part of the first
\* attempt, for each source.
StoreChunks == {ArraySplit(Uploads(Cells, src), ChunkCounts[1], 1) : src \in Sources}

\* The calls made on the Database by main.
StoreCalls ==
    [op : {"fetch_status"}]
        \cup [op : {"set_status"}, field : {"isUpdating"}, value : BOOLEAN]
        \cup [op : {"set_status"}, field : {"latestSuccessfulUpdateSource"},
              value : {"gfsB"}]
        \cup [op : {"set_status"}, field : {"globalCharts"}, date : Dates,
              value : {"gfsB"}]
        \cup [op : {"delete_from_status"}, field : {"globalCharts"}, date : Dates]
        \cup [op : {"upload_forecasts"}, operation : StoreChunks]

\* utils.py:82, 91: update_one with $set or $unset on the status document.
UpdateOne(doc, call) ==
    IF call.op = "delete_from_status"
    THEN [doc EXCEPT !.globalCharts[call.date] = NoChart]
    ELSE IF call.op # "set_status" THEN doc
    ELSE IF call.field = "isUpdating" THEN [doc EXCEPT !.isUpdating = call.value]
    ELSE IF call.field = "latestSuccessfulUpdateSource"
    THEN [doc EXCEPT !.latestSuccessfulUpdateSource = call.value]
    ELSE [doc EXCEPT !.globalCharts[call.date] = call.value]

InitStore ==
    /\ status \in {doc \in StatusDocs :
                     /\ doc.latestSuccessfulUpdateSource = "gfsA"
                     /\ doc.globalCharts = [d \in Dates |-> "gfsA"]}
    /\ forecasts = [k \in Keys |-> Absent]
    /\ blob = "gfsA"
    /\ media = {}
    /\ faults = -1
    /\ run = [r \in Runs |-> IdleRun]
    /\ inp = [op |-> "fetch_status"]
    /\ out = [attempts |-> <<"ok">>, result |-> "returned", status |-> status]

\* The caller makes its next call once the call before has returned or
\* raised.
StoreCall ==
    /\ out.result \in {"returned", "raised"}
    /\ inp' \in StoreCalls
    /\ out' = [out EXCEPT !.attempts = <<>>, !.result = "pending"]
    /\ UNCHANGED pipeVars

\* One attempt of the call in progress, under the retry decorator.
StoreAttempt ==
    /\ out.result = "pending"
    /\ \E o \in StoreOutcomes :
        /\ out' = [attempts |-> Append(out.attempts, o),
                   result |-> IF o = "ok" THEN "returned"
                              ELSE IF Retried(o, StoreTries - Len(out.attempts))
                              THEN "pending"
                              ELSE "raised",
                   status |-> IF o = "ok" /\ inp.op = "fetch_status"
                              THEN status ELSE out.status]
        /\ status' = IF o = "ok" THEN UpdateOne(status, inp) ELSE status
        /\ IF inp.op # "upload_forecasts"
           THEN forecasts' = forecasts
           ELSE IF o = "ok"
           THEN forecasts' = BulkWrite(forecasts, Range(inp.operation))
           ELSE \E done \in SUBSET Range(inp.operation) :
                   forecasts' = BulkWrite(forecasts, done)
    /\ UNCHANGED <<blob, media, faults, run, inp>>

NextStore == StoreCall \/ StoreAttempt

SpecStore == InitStore /\ [][NextStore]_vars

\* C16: every store operation of Database is attempted at most 2 times per
\* call; it is attempted again only after a first attempt that raised the
\* transient reconnect error; a second transient failure in a row
\* propagates, and any other error propagates from the attempt that raised
\* it, without another attempt.
AtMostTwoAttempts ==
    LET attempts == out.attempts
        n == Len(attempts)
    IN  /\ n <= 2
        /\ n = 2 => attempts[1] = "reconnect"
        /\ (n = 2 /\ attempts[2] # "ok") => out.result = "raised"
        /\ (n >= 1 /\ attempts[n] = "error") => out.result = "raised"
        /\ out.result = "pending" => attempts \in {<<>>, <<"reconnect">>}

\* A call of upload_forecasts met the reconnect error twice and raised it.
ReconnectTwiceRaised ==
    /\ inp.op = "upload_forecasts"
    /\ out.attempts = <<"reconnect", "reconnect">>
    /\ out.result = "raised"

(***************************************************************************)
(* utils.py:33-54: the retries of load and of open_dataset.                *)
(***************************************************************************)
\* C17: the materialization of a variable is tried again a fixed, finite
\* number of times when it raises the transient error; when every attempt
\* fails, load raises the error that names the variable: a run whose load
\* has failed leaves the loading of that variable, by a success of a later
\* attempt or by the error that ends the run.
LoadRetriesEnd ==
    \A r \in Runs :
        run[r].pc = "load_retry" ~> run[r].pc \notin {"load", "load_retry"}
                                      \/ run[r].raised = "load"

\* C18: open_dataset is tried again while it fails with the transient error
\* and stops as soon as it succeeds or fails otherwise, raising "Unable to
\* open dataset": a run whose open has failed gets past the open, or is
\* ended by that error, and is not retried for ever.
OpenRetriesEnd ==
    \A r \in Runs :
        run[r].pc = "open_retry" ~> run[r].pc \notin {"open", "open_retry"}

(***************************************************************************)
(* main.py:221-276: the hour offsets of the merged grid.                   *)
(***************************************************************************)
\* The grid of a source: NumSteps hourly timestamps from its first one.
SourceGrid(first) == Grid([t \in first..(first + NumSteps - 1) |-> "new"])

\* The grid persisted by the run before: the steps of its source, on top of
\* the history it had kept.
PersistedGrid(start, first) == Grid([t \in start..(first + NumSteps - 1) |-> "prior"])

\* main.py:263-275: time - time[0] in whole hours, for hourly timestamps.
TimeOffset(time) == [i \in 1..Len(time) |-> time[i] - time[1]]

\* The first timestamps tried: one hour after each of the four cycles of a
\* day.  The source of the prior grid is one that existed by now: a cycle
\* before the new one, or, when DATA_SOURCE_URL names an older source than
\* the one ingested last, a cycle after it.
CycleStarts == {49, 55, 61, 67}

InitOffsets ==
    /\ PipeIdle
    /\ \E first \in CycleStarts, lag \in 0..MaxLag, k \in (-MaxBehind)..MaxAhead,
          kept \in {0, 24, 48} :
          /\ k <= lag
          /\ inp = [now |-> first + 6 * lag,
                    first |-> first,
                    prior_first |-> first + 6 * k,
                    prior_start |-> first + 6 * k - kept]
    /\ out = [stage |-> "input"]

\* main.py:241-276: the merge, then the hour offsets of the merged grid.
Offsets ==
    /\ out.stage = "input"
    /\ LET ds == Merged(inp.now, SourceGrid(inp.first),
                        PersistedGrid(inp.prior_start, inp.prior_first))
       IN  out' = [stage |-> "offsets",
                   first |-> ds.time[1],
                   last |-> ds.time[Len(ds.time)],
                   time_offset |-> TimeOffset(ds.time)]
    /\ UNCHANGED <<pipeVars, inp>>

NextOffsets == Offsets

SpecOffsets == InitOffsets /\ [][NextOffsets]_vars

\* C19: in every run whose wall-clock time is not earlier than the first
\* timestamp of the new grid and whose new grid has 120 hourly timestamps,
\* every timestamp of the merged grid has an hour offset from the first
\* timestamp of the merged grid that lies in 0..199.
OffsetsInDomain ==
    (out.stage = "offsets" /\ inp.now >= inp.first) =>
        \A i \in 1..Len(out.time_offset) : out.time_offset[i] \in 0..199

(***************************************************************************)
(* main.py:352-359: the removal of the old entries of globalCharts, with   *)
(* a second run at work on the same status document.                       *)
(***************************************************************************)
\* Run 1 scrapes for its source; run 2 is started with DATA_SOURCE_URL on a
\* source that still has the first date.  The store never fails.
InitPrune ==
    /\ status = [isUpdating |-> FALSE,
                 latestSuccessfulUpdateSource |-> "gfsA",
                 globalCharts |-> [d \in Dates |-> "gfsA"]]
    /\ forecasts = [k \in Keys |-> Absent]
    /\ blob = "gfsA"
    /\ media = {}
    /\ faults = 0
    /\ run = [r \in Runs |->
                IF r = 1
                THEN NewRun(FALSE, NoSource, {1}, {MaxDate}, MaxDate)
                ELSE NewRun(TRUE, "gfsB", {1}, {1}, MaxDate)]
    /\ PureIdle

SpecPrune == InitPrune /\ [][Next]_vars

\* A step that removes an entry of globalCharts is made by a run that is
\* pruning, before its shift and before it has made any chart; the entry is
\* older than the earliest chart date of that run, and nothing else of the
\* status document changes.
RemovesOnlyOld(d) ==
    (status.globalCharts[d] # NoChart /\ status'.globalCharts[d] = NoChart) =>
        /\ status' = [status EXCEPT !.globalCharts[d] = NoChart]
        /\ \E r \in Runs :
            /\ run[r].pc = "prune" /\ run'[r] # run[r]
            /\ run[r].charted = 0
            /\ d < run[r].earliest

\* Run r ends its pruning and goes on to the shift.
PruningDone(r) ==
    /\ run[r].pc = "prune"
    /\ run'[r].pc \in {"chart_put", "finally"}
    /\ run'[r].raised = "none"

\* C20 as stated: before the shift and before any chart of the run is
\* recorded, the run removes exactly the entries of globalCharts older than
\* earliestChartDate and leaves every other entry and field as it is; after
\* this step no entry of globalCharts in the store is older than
\* earliestChartDate.
PrunedStoreHasNoOldChart ==
    [][/\ \A d \in Dates : RemovesOnlyOld(d)
       /\ \A r \in Runs :
            PruningDone(r) =>
                \A d \in Dates : d < run[r].earliest => status.globalCharts[d] = NoChart]_vars

\* C20 as amended: the run removes exactly the entries older than
\* earliestChartDate that its cached copy of the status document holds, and
\* leaves every other entry and field as it is; after this step every entry
\* of the store older than earliestChartDate is one that another run has
\* recorded for a chart it uploaded.
PrunedCacheHasNoOldChart ==
    [][/\ \A d \in Dates : RemovesOnlyOld(d)
       /\ \A r \in Runs :
            PruningDone(r) =>
                \A d \in Dates : d < run[r].earliest =>
                    \/ status.globalCharts[d] = NoChart
                    \/ \E r2 \in Runs \ {r}, i \in 1..2 :
                          /\ status.globalCharts[d] = run[r2].data_source
                          /\ <<d, Vertices[i], run[r2].data_source>> \in media]_vars

\* Run 1 has pruned and is at its first chart: the old entry its cached copy
\* held is gone from the store, the other entry is as it was.
PrunedBeforeCharts ==
    /\ run[1].pc = "chart_put" /\ run[1].charted = 0
    /\ run[1].cache.globalCharts[1] = "gfsA"
    /\ status.globalCharts[1] = NoChart
    /\ status.globalCharts[MaxDate] = "gfsA"

(***************************************************************************)
(* main.py:312-336: the record of the source and the persisted grid.       *)
(***************************************************************************)
\* C21: whenever a run has ended, normally or by an exception, having
\* written latestSuccessfulUpdateSource = its data source, every upsert of
\* its batch was committed within one upload attempt and its merged grid is
\* persisted in the blob store: the status never records a source as
\* ingested while the persisted grid lacks the data of that source.
RecordedSourceIsPersisted ==
    \A r \in Runs :
        (run[r].pc = "done" /\ run[r].wroteLatest) =>
            /\ Last(run[r].log).outcome = "ok"
            /\ run[r].committed = Last(run[r].log).count
            /\ run[r].persisted
            /\ blob = run[r].data_source

(***************************************************************************)
(* main.py:361-367: the shift of the time series by hour angle.  The grid  *)
(* is a time series per longitude; a value is the position it had before   *)
(* the shift, 0 where the shift has filled in NaN.                         *)
(***************************************************************************)
\* DataArray.shift(time=offset): the value of position i moves to position
\* i + offset; the positions left empty are filled with NaN.
ShiftSeries(series, offset) ==
    [i \in 1..Len(series) |->
        IF i - offset \in 1..Len(series) THEN series[i - offset] ELSE 0]

\* Every longitude shifted by the offset, whatever its bucket.
ShiftEveryLon(ds, offset) ==
    [lon \in DOMAIN ds |-> ShiftSeries(ds[lon], offset)]

\* main.py:367: ds.where(utc_hour_angle != offset, other=ds.shift(time=offset)):
\* the longitudes of other buckets keep their series, those of this bucket
\* take the shifted one.
ShiftWhere(ds, offset) ==
    [lon \in DOMAIN ds |->
        IF UtcHourAngle(lon) # offset THEN ds[lon] ELSE ShiftSeries(ds[lon], offset)]

\* The longitudes tried: buckets 0, 1, 2, 12, -11 and -1, the halves 7.5 and
\* 22.5, and the cyclic point 360.
ShiftLons == {0, 750, 1500, 2250, 3000, 18000, 19000, 34500, 36000}

\* The series before the shift: each value is its own position.
Unshifted == [i \in 1..SeriesLen |-> i]

InitShift ==
    /\ PipeIdle
    /\ \E lons \in SUBSET ShiftLons :
          /\ lons # {} /\ Cardinality(lons) <= MaxLons
          /\ inp = [lons |-> lons]
          /\ out = [stage |-> "shifting",
                    ds |-> [lon \in lons |-> Unshifted],
                    left |-> {UtcHourAngle(lon) : lon \in lons}]

\* main.py:365-367: one iteration of the loop over np.unique(utc_hour_angle).
\* np.unique gives the offsets in increasing order; here they are taken in
\* any order, that one included.
ShiftBucket ==
    /\ out.stage = "shifting"
    /\ \E offset \in out.left :
          out' = [stage |-> IF out.left = {offset} THEN "shifted" ELSE "shifting",
                  ds |-> ShiftWhere(out.ds, offset),
                  left |-> out.left \ {offset}]
    /\ UNCHANGED <<pipeVars, inp>>

NextShift == ShiftBucket

SpecShift == InitShift /\ [][NextShift]_vars

\* C22: after the loop over the distinct buckets the series of every
\* longitude is shifted exactly once, by the offset of its own bucket,
\* whatever the order of the buckets: during the loop a longitude whose
\* bucket is still to come has its series as it was, and every other has it
\* shifted by its own offset and by no other.
ShiftedOnceByOwnBucket ==
    out.stage \in {"shifting", "shifted"} =>
        /\ out.stage = "shifted" <=> out.left = {}
        /\ \A lon \in inp.lons :
              out.ds[lon] = IF UtcHourAngle(lon) \in out.left
                            THEN Unshifted
                            ELSE ShiftSeries(Unshifted, UtcHourAngle(lon))

\* A grid with longitudes 0, 180 and 345 after the loop: the series at 0 is
\* as it was, the one at 180 is 12 positions later, the one at 345 one
\* position earlier.
ShiftedThreeBuckets ==
    /\ out.stage = "shifted"
    /\ inp.lons = {0, 18000, 34500}
    /\ out.ds[0] = Unshifted
    /\ out.ds[18000][12] = 0 /\ out.ds[18000][13] = 1
    /\ out.ds[34500][1] = 2 /\ out.ds[34500][SeriesLen] = 0

====
